---- MODULE Spec2Model ----
(***************************************************************************)
(* A model of examples/oauth-client.py: the OAuth 2.1 + PKCE demo client   *)
(* of the Twenty MCP server.                                               *)
(*                                                                         *)
(* Text is a sequence of one-character strings, bytes are numbers 0..255,  *)
(* and an Optional[str] is a sequence of length 0 (None) or 1 (the text).  *)
(*                                                                         *)
(* The operating system's secure random source (secrets) is modelled as a  *)
(* collision-free stream: the k-th draw starts with the byte k and ends    *)
(* with a byte chosen freely, so two draws never return the same bytes.    *)
(* hashlib.sha256 is modelled as a fixed deterministic two-byte digest.    *)
(***************************************************************************)
EXTENDS Integers, Sequences, FiniteSets, TLC

\* ------------------------------------------------------------ bounds

\* How many draws from the secure random source a behaviour may make.
MaxDraws == 6
\* The same, in the behaviours of the callback server.
MaxCallbackDraws == 3

\* ------------------------------------------------------------ text and bytes

None == << >>
Some(s) == << s >>

RECURSIVE Flatten(_)
Flatten(ss) == IF ss = << >> THEN << >> ELSE Head(ss) \o Flatten(Tail(ss))

\* The URL-safe base64 alphabet of base64.urlsafe_b64encode.
B64Alphabet ==
    << "A","B","C","D","E","F","G","H","I","J","K","L","M",
       "N","O","P","Q","R","S","T","U","V","W","X","Y","Z",
       "a","b","c","d","e","f","g","h","i","j","k","l","m",
       "n","o","p","q","r","s","t","u","v","w","x","y","z",
       "0","1","2","3","4","5","6","7","8","9","-","_" >>

\* One group of 1..3 bytes as 4 characters, "=" padding the short groups.
B64Group(g) ==
    LET b1 == g[1]
        b2 == IF Len(g) >= 2 THEN g[2] ELSE 0
        b3 == IF Len(g) >= 3 THEN g[3] ELSE 0
        n  == b1 * 65536 + b2 * 256 + b3
        c1 == B64Alphabet[(n \div 262144) + 1]
        c2 == B64Alphabet[((n \div 4096) % 64) + 1]
        c3 == B64Alphabet[((n \div 64) % 64) + 1]
        c4 == B64Alphabet[(n % 64) + 1]
    IN  CASE Len(g) = 1 -> << c1, c2, "=", "=" >>
          [] Len(g) = 2 -> << c1, c2, c3, "=" >>
          [] OTHER      -> << c1, c2, c3, c4 >>

RECURSIVE urlsafe_b64encode(_)
urlsafe_b64encode(bytes) ==
    IF Len(bytes) = 0 THEN << >>
    ELSE IF Len(bytes) <= 3 THEN B64Group(bytes)
    ELSE B64Group(SubSeq(bytes, 1, 3)) \o urlsafe_b64encode(SubSeq(bytes, 4, Len(bytes)))

\* str.rstrip('=')
RECURSIVE rstrip_eq(_)
rstrip_eq(s) ==
    IF Len(s) > 0 /\ s[Len(s)] = "=" THEN rstrip_eq(SubSeq(s, 1, Len(s) - 1)) ELSE s

\* The code point of a character of the base64 alphabet or "=".
Ord(c) ==
    IF c = "=" THEN 61
    ELSE LET i == CHOOSE k \in 1..64 : B64Alphabet[k] = c
         IN  CASE i <= 26 -> 64 + i
               [] i <= 52 -> 96 + (i - 26)
               [] i <= 62 -> 47 + (i - 52)
               [] i = 63  -> 45
               [] OTHER   -> 95

\* str.encode('utf-8') of ASCII text: one byte per character.
encode_utf8(s) == [i \in 1..Len(s) |-> Ord(s[i])]

\* hashlib.sha256(data).digest(), as a deterministic two-byte digest.
RECURSIVE Absorb(_, _)
Absorb(h, bytes) ==
    IF bytes = << >> THEN h
    ELSE Absorb((h * 31 + Head(bytes) + 7) % 65536, Tail(bytes))

sha256(bytes) == LET h == Absorb(40503, bytes) IN << h \div 256, h % 256 >>

HexDigits == << "0","1","2","3","4","5","6","7","8","9","a","b","c","d","e","f" >>

\* binascii.hexlify: two lower-case hexadecimal digits per byte.
hexlify(bytes) ==
    Flatten([i \in 1..Len(bytes) |->
                << HexDigits[(bytes[i] \div 16) + 1], HexDigits[(bytes[i] % 16) + 1] >>])

\* The free byte of a draw from the random source.
ByteVals == {0, 255}

\* secrets.token_bytes: what the k-th draw can return.
token_bytes(k) == { << k, b >> : b \in ByteVals }

\* secrets.token_hex: the k-th draw, as hexadecimal text.
token_hex(k) == { hexlify(bytes) : bytes \in token_bytes(k) }

\* ------------------------------------------------------------ state

Clients == {"a", "b"}

\* The client main() constructs.
Main == "a"

VARIABLES
    access_token,   \* OAuthClient.access_token, per client
    code_verifier,  \* OAuthClient.code_verifier, per client
    state,          \* OAuthClient.state, per client
    session,        \* OAuthClient.session, per client: "none", "open" or "closed"
    draws,          \* how many draws the secure random source has served
    pkce_ret,       \* per client, what its latest generate_pkce() returned
    attempts,       \* the authorization attempts so far, in order
    callback,       \* the latest request handle_callback answered, with its response
    pc,             \* where main() is
    healthSession,  \* the session of main()'s health check: "none", "open", "closed"
    inflight,       \* the requests sent and not yet answered
    log,            \* every request sent, in order
    trace,          \* the steps of the run started so far, in order
    resp,           \* per step, the response it received
    ret,            \* per step, what the operation returned
    bodyRead,       \* the steps whose response body was read
    exc,            \* the exception propagating out of run_complete_flow
    printed,        \* the diagnostics printed
    outcome         \* how main() ended: "running", "returned" or "raised"

clientVars == << access_token, code_verifier, state, session >>
apiVars == << draws, pkce_ret, attempts, callback >>
flowVars == << pc, healthSession, inflight, log, trace, resp, ret, bodyRead, exc,
               printed, outcome >>
vars == << clientVars, apiVars, flowVars >>

\* The steps of main() and run_complete_flow, in the order of the source.
StepOrder == << "health", "discover", "auth_meta", "authorize", "store", "get_meta", "mcp" >>
Steps == {StepOrder[i] : i \in 1..Len(StepOrder)}
RequestSteps == Steps \ {"authorize"}

\* OAuthClient.__init__ for every client.
ClientInit ==
    /\ access_token = [c \in Clients |-> None]
    /\ code_verifier = [c \in Clients |-> None]
    /\ state = [c \in Clients |-> None]
    /\ session = [c \in Clients |-> "none"]

ApiVarsInit ==
    /\ draws = 0
    /\ pkce_ret = [c \in Clients |-> None]
    /\ attempts = << >>
    /\ callback = None

\* ------------------------------------------------------------ PKCE and state

\* The verifier generate_pkce derives from 32 random bytes (line 42).
NewVerifier(bytes) == rstrip_eq(urlsafe_b64encode(bytes))

\* A bug: the padding is left on the challenge.
PkceParamsPadded(verifier) ==
    [ code_verifier |-> verifier,
      code_challenge |-> urlsafe_b64encode(sha256(encode_utf8(verifier))),
      code_challenge_method |-> "S256" ]

\* What generate_pkce returns for the verifier it stored (lines 43-51).
PkceParams(verifier) ==
    [ code_verifier |-> verifier,
      code_challenge |-> rstrip_eq(urlsafe_b64encode(sha256(encode_utf8(verifier)))),
      code_challenge_method |-> "S256" ]

\* A bug: a state the client already holds is kept.
NewStateKept(c, hex) == IF state[c] # None THEN state[c][1] ELSE hex

\* What generate_state stores and returns: the fresh token (lines 55-56).
NewState(c, hex) == hex

\* OAuthClient.generate_pkce, called on client c.
generate_pkce(c) ==
    /\ draws < MaxDraws
    /\ \E bytes \in token_bytes(draws + 1) :
          LET verifier == NewVerifier(bytes) IN
          /\ code_verifier' = [code_verifier EXCEPT ![c] = Some(verifier)]
          /\ pkce_ret' = [pkce_ret EXCEPT ![c] = Some(PkceParams(verifier))]
    /\ draws' = draws + 1
    /\ UNCHANGED << access_token, state, session, attempts, callback >>
    /\ UNCHANGED flowVars

\* OAuthClient.generate_state, called on client c.
generate_state(c) ==
    /\ draws < MaxDraws
    /\ \E hex \in token_hex(draws + 1) :
          state' = [state EXCEPT ![c] = Some(NewState(c, hex))]
    /\ draws' = draws + 1
    /\ UNCHANGED << access_token, code_verifier, session, pkce_ret, attempts,
                    callback >>
    /\ UNCHANGED flowVars

\* The authorization URL of start_auth_flow: the endpoint and the query
\* parameters urlencode writes (lines 95-105).
AuthUrl(endpoint, pkce_params, st) ==
    [ endpoint |-> endpoint,
      response_type |-> "code",
      client_id |-> "YOUR_CLIENT_ID",
      redirect_uri |-> "http://localhost:8080/callback",
      scope |-> "twenty:read twenty:write",
      code_challenge |-> pkce_params.code_challenge,
      code_challenge_method |-> pkce_params.code_challenge_method,
      state |-> st ]

\* The token simulate_callback stores (line 121).
MockToken(hex) == << "mock_access_token_" >> \o hex

\* OAuthClient.start_auth_flow on client c, simulate_callback included:
\* generate_pkce, generate_state, the URL, then the mock token. The caller
\* says what becomes of the variables of main().
start_auth_flow(c, endpoint) ==
    /\ draws + 3 <= MaxDraws
    /\ \E bytes \in token_bytes(draws + 1), hex \in token_hex(draws + 2),
          tok \in token_hex(draws + 3) :
          LET verifier == NewVerifier(bytes)
              pkce_params == PkceParams(verifier)
              st == NewState(c, hex)
          IN
          /\ code_verifier' = [code_verifier EXCEPT ![c] = Some(verifier)]
          /\ pkce_ret' = [pkce_ret EXCEPT ![c] = Some(pkce_params)]
          /\ state' = [state EXCEPT ![c] = Some(st)]
          /\ attempts' = Append(attempts,
                [ client |-> c,
                  url |-> AuthUrl(endpoint, pkce_params, st),
                  code_verifier |-> code_verifier'[c],
                  state |-> state'[c] ])
          /\ access_token' = [access_token EXCEPT ![c] = Some(MockToken(tok))]
    /\ draws' = draws + 3
    /\ UNCHANGED << session, callback >>

\* ------------------------------------------------------------ callback server

\* A bug: the state is compared only when the request carries one.
CallbackResponseLax(query, stored) ==
    IF query.error # None
    THEN [status |-> 400, title |-> "Authorization Error", detail |-> query.error[1]]
    ELSE IF query.state # None /\ query.state # stored
    THEN [status |-> 400, title |-> "Invalid State", detail |-> << >>]
    ELSE IF query.code = None \/ query.code[1] = << >>
    THEN [status |-> 400, title |-> "Missing Code", detail |-> << >>]
    ELSE [status |-> 200, title |-> "Authorization Successful!", detail |-> << >>]

\* A bug: the error parameter is looked at after the code.
CallbackResponseLate(query, stored) ==
    IF query.state # stored
    THEN [status |-> 400, title |-> "Invalid State", detail |-> << >>]
    ELSE IF query.code # None /\ query.code[1] # << >>
    THEN [status |-> 200, title |-> "Authorization Successful!", detail |-> << >>]
    ELSE IF query.error # None
    THEN [status |-> 400, title |-> "Authorization Error", detail |-> query.error[1]]
    ELSE [status |-> 400, title |-> "Missing Code", detail |-> << >>]

\* A bug: the code is not required.
CallbackResponseNoCode(query, stored) ==
    IF query.error # None
    THEN [status |-> 400, title |-> "Authorization Error", detail |-> query.error[1]]
    ELSE IF query.state # stored
    THEN [status |-> 400, title |-> "Invalid State", detail |-> << >>]
    ELSE [status |-> 200, title |-> "Authorization Successful!", detail |-> << >>]

\* The response of CallbackServer.handle_callback to a query, given the
\* state its client holds (lines 278-314).
CallbackResponse(query, stored) ==
    IF query.error # None
    THEN [status |-> 400, title |-> "Authorization Error", detail |-> query.error[1]]
    ELSE IF query.state # stored
    THEN [status |-> 400, title |-> "Invalid State", detail |-> << >>]
    ELSE IF query.code = None \/ query.code[1] = << >>
    THEN [status |-> 400, title |-> "Missing Code", detail |-> << >>]
    ELSE [status |-> 200, title |-> "Authorization Successful!", detail |-> << >>]

\* The query strings a callback request may carry: each parameter absent,
\* empty or set; the state also set to one a client holds or held.
QueryStates ==
    {None, Some(<< >>), Some(<< "0", "0" >>)}
        \cup {state[c] : c \in Clients}
        \cup {attempts[i].state : i \in 1..Len(attempts)}
QueryCodes == {None, Some(<< >>), Some(<< "4", "/", "P" >>)}
QueryErrors == {None, Some(<< "access_denied" >>)}
Queries ==
    [state : QueryStates, code : QueryCodes, error : QueryErrors]

\* CallbackServer.handle_callback of the server built on client c.
handle_callback(c) ==
    /\ \E query \in Queries :
          callback' = Some([ client |-> c, query |-> query, stored |-> state[c],
                             response |-> CallbackResponse(query, state[c]) ])
    /\ UNCHANGED << clientVars, draws, pkce_ret, attempts >>
    /\ UNCHANGED flowVars

\* OAuthClient.start_auth_flow called on client c outside main().
call_start_auth_flow(c) ==
    /\ start_auth_flow(c, "https://auth.example/authorize")
    /\ UNCHANGED flowVars

\* ------------------------------------------------------------ the server's answers

\* The statuses a server answers with; aiohttp's response.ok is status < 400.
Statuses == {200, 300, 400, 401, 500}

\* The bodies: the JSON object the endpoint documents, the JSON object
\* {"error": "No API key configured"}, and a body that is not JSON.
Bodies == {"expected", "no_api_key", "not_json"}

\* What a request ends with: a connection error or an HTTP response.
Responses ==
    {[kind |-> "error", status |-> 0, body |-> "none"]}
        \cup [kind : {"http"}, status : Statuses, body : Bodies]

ok(r) == r.status < 400

Raised(read) == [raise |-> TRUE, value |-> "none", read |-> read]
Returned(v, read) == [raise |-> FALSE, value |-> v, read |-> read]

\* main()'s health check, lines 334-344: whatever is raised is caught.
HealthOutcome(r) ==
    IF r.kind = "error" THEN Raised(FALSE)
    ELSE IF ~ok(r) THEN Raised(FALSE)
    ELSE IF r.body = "not_json" THEN Raised(TRUE)
    ELSE Returned(IF r.body = "expected" THEN "auth_enabled" ELSE "auth_disabled", TRUE)

\* A bug: the status of the discovery response is not looked at.
DiscoverOutcomeUnchecked(r) ==
    IF r.kind = "error" THEN Raised(FALSE)
    ELSE IF r.body # "expected" THEN Raised(TRUE)
    ELSE Returned("metadata", TRUE)

\* discover_endpoints, lines 62-71.
DiscoverOutcome(r) ==
    IF r.kind = "error" THEN Raised(FALSE)
    ELSE IF ~ok(r) THEN Raised(FALSE)
    ELSE IF r.body # "expected" THEN Raised(TRUE)
    ELSE Returned("metadata", TRUE)

\* get_auth_server_metadata, lines 77-87.
AuthMetaOutcome(r) ==
    IF r.kind = "error" THEN Raised(FALSE)
    ELSE IF ~ok(r) THEN Raised(FALSE)
    ELSE IF r.body # "expected" THEN Raised(TRUE)
    ELSE Returned("metadata", TRUE)

\* A bug: the status is checked for failure before the 401 case.
StoreOutcomeStrict(r) ==
    IF r.kind = "error" THEN Raised(FALSE)
    ELSE IF ~ok(r) THEN Raised(FALSE)
    ELSE IF r.body = "not_json" THEN Raised(TRUE)
    ELSE Returned("True", TRUE)

\* store_api_key, lines 142-155.
StoreOutcome(r) ==
    IF r.kind = "error" THEN Raised(FALSE)
    ELSE IF r.status = 401 THEN Returned("False", FALSE)
    ELSE IF ~ok(r) THEN Raised(FALSE)
    ELSE IF r.body = "not_json" THEN Raised(TRUE)
    ELSE Returned("True", TRUE)

\* get_api_key_metadata, lines 165-179.
GetMetaOutcome(r) ==
    IF r.kind = "error" THEN Raised(FALSE)
    ELSE IF r.status = 401 THEN Returned("None", FALSE)
    ELSE IF ~ok(r) THEN Raised(FALSE)
    ELSE IF r.body # "expected" THEN Raised(TRUE)
    ELSE Returned("metadata", TRUE)

\* make_mcp_request, lines 197-215.
McpOutcome(r) ==
    IF r.kind = "error" THEN Raised(FALSE)
    ELSE IF r.status = 401 THEN Returned("None", FALSE)
    ELSE IF r.status = 400 /\ r.body = "not_json" THEN Raised(TRUE)
    ELSE IF r.status = 400 /\ r.body = "no_api_key" THEN Returned("None", TRUE)
    ELSE Returned("text", TRUE)

\* ------------------------------------------------------------ main()

FlowInit ==
    /\ pc = "main"
    /\ healthSession = "none"
    /\ inflight = {}
    /\ log = << >>
    /\ trace = << >>
    /\ resp = [s \in Steps |-> None]
    /\ ret = [s \in Steps |-> None]
    /\ bodyRead = {}
    /\ exc = None
    /\ printed = {}
    /\ outcome = "running"

\* The Authorization header of a step's request: absent, or "Bearer " and
\* the client's access token as it is then (None is sent as "Bearer None").
Authorization(step) ==
    IF step \in {"store", "get_meta", "mcp"} THEN Some(access_token[Main]) ELSE None

\* The session a step's request goes out on.
SessionOf(step) == IF step = "health" THEN healthSession ELSE session[Main]

Request(step) ==
    [step |-> step, authorization |-> Authorization(step), session |-> SessionOf(step)]

\* A bug: the API key is stored before the authorization step.
StepAfterEarlyStore(step) ==
    CASE step = "discover"  -> "auth_meta"
      [] step = "auth_meta" -> "store"
      [] step = "store"     -> "authorize"
      [] step = "authorize" -> "get_meta"
      [] step = "get_meta"  -> "mcp"
      [] OTHER              -> "aexit"

\* run_complete_flow, lines 225-246: the step that follows a step.
StepAfter(step) ==
    CASE step = "discover"  -> "auth_meta"
      [] step = "auth_meta" -> "authorize"
      [] step = "authorize" -> "store"
      [] step = "store"     -> "get_meta"
      [] step = "get_meta"  -> "mcp"
      [] OTHER              -> "aexit"

\* A bug: the session is left open when an exception passes through.
SessionAfterExitLeak(s, e) == IF s = "open" /\ e = None THEN "closed" ELSE s

\* __aexit__, and the exit of `async with aiohttp.ClientSession()`: an
\* open session is closed, whether or not an exception e passes through.
SessionAfterExit(s, e) == IF s = "open" THEN "closed" ELSE s

\* main() enters `async with aiohttp.ClientSession() as session` (line 332).
OpenHealthSession ==
    /\ pc = "main"
    /\ healthSession' = "open"
    /\ pc' = "health"
    /\ UNCHANGED << clientVars, apiVars, inflight, log, trace, resp, ret, bodyRead,
                    exc, printed, outcome >>

\* A step sends its request and awaits the answer.
Send ==
    /\ pc \in RequestSteps
    /\ resp[pc] = None
    /\ Request(pc) \notin inflight
    /\ inflight' = inflight \cup {Request(pc)}
    /\ log' = Append(log, Request(pc))
    /\ trace' = Append(trace, pc)
    /\ UNCHANGED << clientVars, apiVars, pc, healthSession, resp, ret, bodyRead,
                    exc, printed, outcome >>

\* The answer r to the request of `step` arrives and the step ends with o.
Answered(step, r, o) ==
    /\ pc = step
    /\ Request(step) \in inflight
    /\ inflight' = inflight \ {Request(step)}
    /\ resp' = [resp EXCEPT ![step] = Some(r)]
    /\ bodyRead' = IF o.read THEN bodyRead \cup {step} ELSE bodyRead
    /\ ret' = IF o.raise THEN ret ELSE [ret EXCEPT ![step] = Some(o.value)]

\* A step of run_complete_flow ends: with an exception, which the except
\* clause reports and raises again (lines 263-265), or with the next step;
\* after the last step the summary is printed (line 249).
FlowContinues(step, o) ==
    IF o.raise
    THEN /\ exc' = Some(step)
         /\ printed' = printed \cup {"demo_failed"}
         /\ pc' = "aexit"
    ELSE /\ exc' = exc
         /\ printed' = IF StepAfter(step) = "aexit"
                       THEN printed \cup {"completed"} ELSE printed
         /\ pc' = StepAfter(step)

\* The health check is answered (lines 334-344).
ReceiveHealth ==
    \E r \in Responses :
        LET o == HealthOutcome(r) IN
        /\ Answered("health", r, o)
        /\ printed' = IF o.raise THEN printed \cup {"cannot_connect"}
                      ELSE IF o.value = "auth_disabled" THEN printed \cup {"auth_warning"}
                      ELSE printed
        /\ pc' = IF o.raise THEN "health_return" ELSE "health_exit"
        /\ UNCHANGED << clientVars, apiVars, healthSession, log, trace, exc, outcome >>

\* The health-check session is left: main() returns (line 344) or goes on.
CloseHealthSession ==
    /\ pc \in {"health_return", "health_exit"}
    /\ healthSession' = SessionAfterExit(healthSession, None)
    /\ pc' = IF pc = "health_return" THEN "done" ELSE "aenter"
    /\ outcome' = IF pc = "health_return" THEN "returned" ELSE outcome
    /\ UNCHANGED << clientVars, apiVars, inflight, log, trace, resp, ret, bodyRead,
                    exc, printed >>

\* OAuthClient.__aenter__ (lines 32-34), entered at line 347.
AEnter ==
    /\ pc = "aenter"
    /\ session' = [session EXCEPT ![Main] = "open"]
    /\ pc' = "discover"
    /\ UNCHANGED << access_token, code_verifier, state, apiVars, healthSession,
                    inflight, log, trace, resp, ret, bodyRead, exc, printed, outcome >>

ReceiveDiscover ==
    \E r \in Responses :
        /\ Answered("discover", r, DiscoverOutcome(r))
        /\ FlowContinues("discover", DiscoverOutcome(r))
        /\ UNCHANGED << clientVars, apiVars, healthSession, log, trace, outcome >>

ReceiveAuthMeta ==
    \E r \in Responses :
        /\ Answered("auth_meta", r, AuthMetaOutcome(r))
        /\ FlowContinues("auth_meta", AuthMetaOutcome(r))
        /\ UNCHANGED << clientVars, apiVars, healthSession, log, trace, outcome >>

\* Step 3 of run_complete_flow: start_auth_flow (line 233).
Authorize ==
    /\ pc = "authorize"
    /\ start_auth_flow(Main, "authorization_endpoint")
    /\ trace' = Append(trace, "authorize")
    /\ ret' = [ret EXCEPT !["authorize"] = Some("token")]
    /\ pc' = StepAfter("authorize")
    /\ UNCHANGED << healthSession, inflight, log, resp, bodyRead, exc, printed, outcome >>

ReceiveStore ==
    \E r \in Responses :
        /\ Answered("store", r, StoreOutcome(r))
        /\ FlowContinues("store", StoreOutcome(r))
        /\ UNCHANGED << clientVars, apiVars, healthSession, log, trace, outcome >>

ReceiveGetMeta ==
    \E r \in Responses :
        /\ Answered("get_meta", r, GetMetaOutcome(r))
        /\ FlowContinues("get_meta", GetMetaOutcome(r))
        /\ UNCHANGED << clientVars, apiVars, healthSession, log, trace, outcome >>

ReceiveMcp ==
    \E r \in Responses :
        /\ Answered("mcp", r, McpOutcome(r))
        /\ FlowContinues("mcp", McpOutcome(r))
        /\ UNCHANGED << clientVars, apiVars, healthSession, log, trace, outcome >>

\* OAuthClient.__aexit__ (lines 36-38); then main() ends, with the
\* exception of run_complete_flow if there is one.
AExit ==
    /\ pc = "aexit"
    /\ session' = [session EXCEPT ![Main] = SessionAfterExit(session[Main], exc)]
    /\ pc' = "done"
    /\ outcome' = IF exc # None THEN "raised" ELSE "returned"
    /\ UNCHANGED << access_token, code_verifier, state, apiVars, healthSession,
                    inflight, log, trace, resp, ret, bodyRead, exc, printed >>

\* ------------------------------------------------------------ specifications

\* One run of main().
Init == ClientInit /\ ApiVarsInit /\ FlowInit

Next ==
    \/ OpenHealthSession
    \/ Send
    \/ ReceiveHealth
    \/ CloseHealthSession
    \/ AEnter
    \/ ReceiveDiscover
    \/ ReceiveAuthMeta
    \/ Authorize
    \/ ReceiveStore
    \/ ReceiveGetMeta
    \/ ReceiveMcp
    \/ AExit

Spec == Init /\ [][Next]_vars

\* The methods of the clients and of their callback servers, called in any
\* order by an application.
ApiInit ==
    /\ ClientInit
    /\ ApiVarsInit
    /\ pc = "idle"
    /\ healthSession = "none"
    /\ inflight = {}
    /\ log = << >>
    /\ trace = << >>
    /\ resp = [s \in Steps |-> None]
    /\ ret = [s \in Steps |-> None]
    /\ bodyRead = {}
    /\ exc = None
    /\ printed = {}
    /\ outcome = "running"

CallGeneratePkce == \E c \in Clients : generate_pkce(c)
CallGenerateState == \E c \in Clients : generate_state(c)
CallStartAuthFlow == \E c \in Clients : call_start_auth_flow(c)

ApiNext ==
    \/ CallGeneratePkce
    \/ CallGenerateState
    \/ CallStartAuthFlow

ApiSpec == ApiInit /\ [][ApiNext]_vars

\* The callback servers of the clients answer requests while the
\* application starts authorization attempts and renews states.
RenewState == draws < MaxCallbackDraws /\ \E c \in Clients : generate_state(c)
StartAttempt == draws + 3 <= MaxCallbackDraws /\ \E c \in Clients : call_start_auth_flow(c)
AnswerCallback == \E c \in Clients : handle_callback(c)

CallbackNext ==
    \/ RenewState
    \/ StartAttempt
    \/ AnswerCallback

CallbackSpec == ApiInit /\ [][CallbackNext]_vars

\* ------------------------------------------------------------ PKCE claims

\* base64url_nopad(sha256(verifier)) of spec.md, section 3.
ChallengeOf(verifier) == rstrip_eq(urlsafe_b64encode(sha256(encode_utf8(verifier))))

\* C1: whatever generate_pkce last returned on a client, the challenge is
\* base64url_nopad(sha256(verifier)) of the returned verifier, the method is
\* "S256", and the verifier the client stores is the returned one, however
\* many times generate_pkce was called before.
C1_PkceConsistent ==
    \A c \in Clients :
        pkce_ret[c] # None =>
            LET r == pkce_ret[c][1] IN
            /\ r.code_challenge = ChallengeOf(r.code_verifier)
            /\ r.code_challenge_method = "S256"
            /\ code_verifier[c] = Some(r.code_verifier)

\* generate_pkce ran at least twice on one client: an earlier attempt of the
\* client used a verifier that is no longer the stored one.
C1_Witness ==
    \E c \in Clients : \E i \in 1..Len(attempts) :
        /\ attempts[i].client = c
        /\ pkce_ret[c] # None
        /\ attempts[i].code_verifier # code_verifier[c]

\* The last attempt of client c, 0 when it made none.
LastAttempt(c) ==
    LET mine == {i \in 1..Len(attempts) : attempts[i].client = c}
    IN  IF mine = {} THEN 0 ELSE CHOOSE i \in mine : \A j \in mine : j <= i

\* C7: every authorization attempt puts into its URL the challenge of the
\* verifier and the state the client stores at that moment, both generated
\* for this attempt: no two attempts, of one client or of two, share a
\* verifier or a state, and a client that started a later attempt stores no
\* verifier or state of an earlier one.
C7_FreshPerAttempt ==
    /\ \A i \in 1..Len(attempts) :
          LET a == attempts[i] IN
          /\ a.code_verifier # None
          /\ a.state # None
          /\ a.url.code_challenge = ChallengeOf(a.code_verifier[1])
          /\ a.url.code_challenge_method = "S256"
          /\ a.url.state = a.state[1]
    /\ \A i, j \in 1..Len(attempts) :
          i < j => /\ attempts[i].code_verifier # attempts[j].code_verifier
                   /\ attempts[i].state # attempts[j].state
                   /\ attempts[i].url.state # attempts[j].url.state
    /\ \A c \in Clients : \A i \in 1..Len(attempts) :
          i < LastAttempt(c) => /\ code_verifier[c] # attempts[i].code_verifier
                                /\ state[c] # attempts[i].state

\* Two attempts on one client, which stores the state of the later one.
C7_Witness ==
    \E i, j \in 1..Len(attempts) :
        /\ i < j
        /\ attempts[i].client = attempts[j].client
        /\ state[attempts[j].client] = attempts[j].state

\* ------------------------------------------------------------ callback claims

Answered200 == callback # None /\ callback[1].response.status = 200
StateMatches(cb) == cb.query.state = cb.stored

\* C2 as stated: a request whose state does not match the stored one is
\* answered 400 "Invalid State", whatever its other parameters.
C2_InvalidStateAlways ==
    callback # None =>
        LET cb == callback[1] IN
        ~StateMatches(cb) =>
            /\ cb.response.status = 400
            /\ cb.response.title = "Invalid State"

\* C2, amended: a request whose state does not match the stored one is
\* answered 400; the body says "Invalid State" unless the query carries
\* `error`, and then it says "Authorization Error".
C2_InvalidState ==
    callback # None =>
        LET cb == callback[1] IN
        ~StateMatches(cb) =>
            /\ cb.response.status = 400
            /\ cb.query.error = None => cb.response.title = "Invalid State"
            /\ cb.query.error # None => cb.response.title = "Authorization Error"

\* A request with a code and no state, while the client stores a state.
C2_Witness ==
    /\ callback # None
    /\ callback[1].stored # None
    /\ callback[1].query.state = None
    /\ callback[1].query.error = None
    /\ callback[1].query.code # None
    /\ callback[1].response.title = "Invalid State"

\* C3 as stated: a request with neither code nor error is answered 400
\* "Missing Code", whatever its state and the stored one.
C3_MissingCodeAlways ==
    callback # None =>
        LET cb == callback[1] IN
        (cb.query.code = None /\ cb.query.error = None) =>
            /\ cb.response.status = 400
            /\ cb.response.title = "Missing Code"

\* C3, amended: a request with neither code nor error is answered 400; the
\* body says "Missing Code" when the state matches the stored one and
\* "Invalid State" when it does not.
C3_MissingCode ==
    callback # None =>
        LET cb == callback[1] IN
        (cb.query.code = None /\ cb.query.error = None) =>
            /\ cb.response.status = 400
            /\ StateMatches(cb) => cb.response.title = "Missing Code"
            /\ ~StateMatches(cb) => cb.response.title = "Invalid State"

\* A request with the stored state and neither code nor error.
C3_Witness ==
    /\ callback # None
    /\ callback[1].stored # None
    /\ StateMatches(callback[1])
    /\ callback[1].query.code = None
    /\ callback[1].query.error = None
    /\ callback[1].response.title = "Missing Code"

\* C4 as stated: a request with the stored state and a code parameter (and
\* no error) is answered 200, and a request with `error` is answered 400.
C4_CodeGets200 ==
    callback # None =>
        LET cb == callback[1] IN
        /\ (StateMatches(cb) /\ cb.query.code # None /\ cb.query.error = None)
              => cb.response.status = 200
        /\ cb.query.error # None => cb.response.status = 400

\* C4, amended: a request with the stored state, a non-empty code and no
\* error is answered 200; with an empty code it is answered 400 "Missing
\* Code"; and a request with `error` is answered 400.
C4_NonEmptyCodeGets200 ==
    callback # None =>
        LET cb == callback[1] IN
        /\ (StateMatches(cb) /\ cb.query.code # None /\ cb.query.code # Some(<< >>)
                /\ cb.query.error = None)
              => cb.response.status = 200
        /\ (StateMatches(cb) /\ cb.query.code = Some(<< >>) /\ cb.query.error = None)
              => (cb.response.status = 400 /\ cb.response.title = "Missing Code")
        /\ cb.query.error # None => cb.response.status = 400

\* A request with the stored state, a code and no error, answered 200.
C4_Witness ==
    /\ Answered200
    /\ callback[1].stored # None
    /\ StateMatches(callback[1])
    /\ callback[1].query.code # None
    /\ callback[1].query.error = None

\* C9: a callback is answered 200 only if its client has generated a state,
\* the request carries that state and a non-empty code, and no error.
C9_OkOnlyAfterStateGenerated ==
    Answered200 =>
        LET cb == callback[1] IN
        /\ cb.stored # None
        /\ cb.query.state = cb.stored
        /\ cb.query.code # None /\ cb.query.code # Some(<< >>)
        /\ cb.query.error = None

\* ------------------------------------------------------------ claims about main()

Done == pc = "done"
LastStep == IF trace = << >> THEN "none" ELSE trace[Len(trace)]
Got(step) == resp[step] # None
ClientSteps == {"discover", "auth_meta", "store", "get_meta", "mcp"}
BearerSteps == {"store", "get_meta", "mcp"}

\* The step ended the run with an exception that leaves main().
Aborted(step) ==
    /\ ret[step] = None
    /\ LastStep = step
    /\ exc = Some(step)
    /\ "demo_failed" \in printed
    /\ Done => outcome = "raised"

\* A failure in the words of C5: a connection error, or a status outside
\* 200..299 that is not one of the handled cases (401 in the three
\* authenticated steps, 400 in make_mcp_request).
FailureAsStated(step, r) ==
    \/ r.kind = "error"
    \/ /\ r.kind = "http"
       /\ r.status \notin 200..299
       /\ ~(r.status = 401 /\ step \in BearerSteps)
       /\ ~(r.status = 400 /\ step = "mcp")

\* C5 as stated: every failure of a step is raised, no later step runs and
\* the error leaves main().
C5_EveryFailureRaised ==
    \A step \in RequestSteps :
        (Got(step) /\ FailureAsStated(step, resp[step][1])) =>
            /\ ret[step] = None
            /\ LastStep = step
            /\ Done => outcome = "raised"

\* C5, amended: a connection error in a step of run_complete_flow, or a
\* status of 400 or more (401 apart) in discover_endpoints,
\* get_auth_server_metadata, store_api_key or get_api_key_metadata, is raised,
\* no later step runs and the error leaves main(). A failed health check
\* (connection error, status of 400 or more) also ends the run with no
\* later step, but main() catches it and returns. make_mcp_request raises on
\* no status: but for 400 and 401 it returns the response text and the run
\* completes. A 3xx status with the expected body is no failure.
C5_FailureAborts ==
    \A step \in RequestSteps :
        Got(step) =>
            LET r == resp[step][1] IN
            /\ (step \in ClientSteps /\ r.kind = "error") => Aborted(step)
            /\ (step \in ClientSteps \ {"mcp"} /\ r.kind = "http" /\ r.status >= 400
                    /\ ~(r.status = 401 /\ step \in BearerSteps))
                  => Aborted(step)
            /\ (step = "health" /\ (r.kind = "error" \/ r.status >= 400))
                  => /\ ret[step] = None
                     /\ LastStep = step
                     /\ exc = None
                     /\ "cannot_connect" \in printed
                     /\ Done => outcome = "returned"
            /\ (step = "mcp" /\ r.kind = "http" /\ r.status \notin {400, 401})
                  => /\ ret[step] = Some("text")
                     /\ exc = None
                     /\ "completed" \in printed
                     /\ Done => outcome = "returned"
            /\ (step # "mcp" /\ r.kind = "http" /\ r.status \in 300..399
                    /\ r.body = "expected")
                  => (ret[step] # None /\ exc # Some(step))

\* main() has ended after store_api_key got a 500.
C5_Witness ==
    /\ Done
    /\ Got("store")
    /\ resp["store"][1].status = 500
    /\ outcome = "raised"

Sentinel(step) == IF step = "store" THEN "False" ELSE "None"

\* A 401, or the 200 with the body the endpoint documents.
Benign(r) ==
    /\ r.kind = "http"
    /\ r.status = 401 \/ (r.status = 200 /\ r.body = "expected")

\* C6: a 401 to store_api_key, get_api_key_metadata or make_mcp_request
\* raises nothing: the operation returns False, None, None without reading
\* the body, and whatever mix of 401 and success the three steps get, the
\* run goes through all of its steps in order and main() returns.
C6_UnauthorizedIsNotFatal ==
    /\ \A step \in BearerSteps :
          (Got(step) /\ resp[step][1].kind = "http" /\ resp[step][1].status = 401) =>
              /\ ret[step] = Some(Sentinel(step))
              /\ step \notin bodyRead
              /\ exc # Some(step)
    /\ (\A step \in BearerSteps : Got(step) /\ Benign(resp[step][1])) =>
          /\ trace = StepOrder
          /\ exc = None
          /\ "completed" \in printed
          /\ pc \in {"aexit", "done"}
          /\ Done => outcome = "returned"

\* main() returned after a 401, a success and a 401.
C6_Witness ==
    /\ Done
    /\ outcome = "returned"
    /\ \A step \in BearerSteps : Got(step)
    /\ resp["store"][1].status = 401
    /\ resp["get_meta"][1].status = 200
    /\ resp["mcp"][1].status = 401

\* No request goes out on a session that is not open, and when main() has
\* ended no session is open.
NoSessionLeft ==
    /\ \A i \in 1..Len(log) : log[i].session = "open"
    /\ Done => (healthSession # "open" /\ session[Main] # "open")

\* C8: both sessions are released on every path: no request goes out on a
\* session that is not open; a session is open only inside its `async with`
\* block; the exit of a block is never blocked, whether the block ends by
\* completion, by an early return or by an exception; and once main() has
\* ended no session is open.
C8_SessionsReleased ==
    /\ NoSessionLeft
    /\ pc \in {"health_return", "health_exit"} => ENABLED CloseHealthSession
    /\ pc = "aexit" => ENABLED AExit
    /\ (pc \in RequestSteps /\ inflight = {}) => ENABLED Send
    /\ healthSession = "open" => pc \in {"health", "health_return", "health_exit"}
    /\ session[Main] = "open" => pc \in ClientSteps \cup {"authorize", "aexit"}

\* main() has ended with an exception and the client's session is closed.
C8_Witness ==
    /\ Done
    /\ outcome = "raised"
    /\ healthSession = "closed"
    /\ session[Main] = "closed"

IsPrefix(p, q) == Len(p) <= Len(q) /\ \A i \in 1..Len(p) : p[i] = q[i]

\* The steps of a trace that send a request.
RECURSIVE RequestsOf(_)
RequestsOf(t) ==
    IF t = << >> THEN << >>
    ELSE IF Head(t) \in RequestSteps THEN << Head(t) >> \o RequestsOf(Tail(t))
    ELSE RequestsOf(Tail(t))

\* C10: the steps run in the order health check, discovery, authorization
\* server metadata, authorization, POST /api/keys, GET /api/keys, POST /mcp,
\* one request at a time; the access token is set only after both
\* discovery requests succeeded, and no request carries "Bearer" while the
\* token is None.
C10_StepsInOrder ==
    /\ IsPrefix(trace, StepOrder)
    /\ [i \in 1..Len(log) |-> log[i].step] = RequestsOf(trace)
    /\ Cardinality(inflight) <= 1
    /\ inflight # {} => (\E q \in inflight : q.step = pc /\ LastStep = pc)
    /\ access_token[Main] # None =>
          /\ ret["discover"] = Some("metadata")
          /\ ret["auth_meta"] = Some("metadata")
    /\ \A i \in 1..Len(log) :
          /\ log[i].authorization # None <=> log[i].step \in BearerSteps
          /\ log[i].authorization # None => log[i].authorization[1] # None

\* main() has ended after all seven steps.
C10_Witness ==
    /\ Done
    /\ trace = StepOrder
    /\ Len(log) = 6

====
